---- MODULE Spec2Model ----
(***************************************************************************)
(* Model of the verification orchestrator and the funnel metrics of        *)
(* src/app/main.py: the three stage handlers verify_pan,                   *)
(* create_reverse_penny_drop and mock_payment, and get_admin_metrics.      *)
(*                                                                         *)
(* Each stage handler is a coroutine that suspends exactly once, at the    *)
(* `await client.post(...)` of its provider call; the code before and the  *)
(* code after that await run without interruption (the database calls are  *)
(* synchronous).  A handler is therefore two actions, X_start and          *)
(* X_finish, and the requests suspended at the provider are `inflight`.    *)
(*                                                                         *)
(* Identifiers: a trace identifier is an integer, 0 is the empty/absent    *)
(* one, 1, 2, ... are the "flow_<uuid4>" values in the order they are      *)
(* generated, ErrorTrace stands for an "error_<uuid4>" value and           *)
(* ForeignTrace for a value that no identity check generated.  A request   *)
(* identifier is an integer, 0 is the empty string and 1, 2, ... are fresh *)
(* provider or uuid values.                                                *)
(***************************************************************************)
EXTENDS Integers, Sequences, FiniteSets, TLC

\* ------------------------------------------------------------------ bounds
MaxPan == 1
MaxRpd == 1
MaxPay == 2
MaxInFlight == 2
MaxConsentLen == 1
MaxMetricsPan == 2
MaxMetricsRpd == 2

\* --------------------------------------------------------------- constants
MinReasonLen == 20

Absent == "<absent>"
ErrorTrace == 0 - 2
ForeignTrace == 0 - 1
\* the request carries no flowTraceId at all (flow_trace_id stays None)
AbsentTrace == 0 - 3
BAV_CREATED == "BAV_REVERSE_PENNY_DROP_CREATED"

VARIABLES
    pan_verifications,    \* table pan_verifications: sequence of rows
    reverse_penny_drops,  \* table reverse_penny_drops: id -> row
    payments,             \* table payments: sequence of rows
    inflight,             \* handlers suspended at their provider call
    last,                 \* the response returned, or the provider call
                          \* sent, in the step that led to this state
                          \* (NoLast when that step did neither)
    metrics,              \* the get_admin_metrics response returned in the
                          \* step that led to this state (else NoMetrics)
    statusWrites,         \* id -> number of times the row's status changed
    nextTrace,            \* next uuid4 of a flow trace identifier
    nextId                \* next fresh request identifier

store == <<pan_verifications, reverse_penny_drops, payments>>
vars == <<pan_verifications, reverse_penny_drops, payments, inflight, last,
          metrics, statusWrites, nextTrace, nextId>>

\* ----------------------------------------------------------------- inputs
ConsentChars == {"Y", "y", "N"}
ConsentStrings == UNION {[1..n -> ConsentChars] : n \in 0..MaxConsentLen}
ReasonLengths == {MinReasonLen - 1, MinReasonLen}

UpperChar(c) == IF c = "y" THEN "Y" ELSE c
Upper(s) == [i \in 1..Len(s) |-> UpperChar(s[i])]

\* mutant: rejects the refusal 'N' instead of everything but 'Y'
ConsentRejected_m(consent) == Upper(consent) = <<"N">>

ConsentRejected(consent) == Upper(consent) # <<"Y">>
\* mutant: off by one in the minimum length
ReasonTooShort_m(reasonLen) == reasonLen < MinReasonLen - 1

ReasonTooShort(reasonLen) == reasonLen < MinReasonLen

Falsy(v) == v \in {Absent, ""}

\* mutant: only a request without the key is rejected, an empty value passes
FlowTraceIdMissing_m(flow_trace_id) == flow_trace_id = AbsentTrace

\* `if not flow_trace_id`: the key is absent or its value is empty
FlowTraceIdMissing(flow_trace_id) == flow_trace_id \in {AbsentTrace, 0}

\* ------------------------------------------------------------ access gate
\* what validating the bearer token of a request yields: "none" is an
\* AuthError (no token, malformed, expired or wrongly signed), otherwise
\* the role the token carries
Tokens == {"none", "member", "admin"}

\* mutant: every validated token passes, whatever its role
get_admin_user_m(token) == token # "none"

\* administrator role required
get_admin_user(token) == token = "admin"

\* member gate: verification operations, open to members and to the
\* administrator (full access)
get_member_user(token) == token \in {"member", "admin"}

\* dict.get(key, default) on a key that is Absent or carries value v
Get(v, default) == IF v = Absent THEN default ELSE v

\* ------------------------------------------------------ provider responses
\* kind: "network" is httpx.RequestError, "badjson" is response.json() (or
\* a .get on a body that is no object) raising, "json" is a JSON object.
NoProv ==
    [kind |-> "none", code |-> 0, verification |-> Absent, dataOk |-> TRUE,
     fullName |-> Absent, full_name |-> Absent, status |-> Absent,
     trace |-> 0, shortURL |-> Absent, validUpto |-> Absent]

PanProviderResponses ==
    {[NoProv EXCEPT !.kind = "network"], [NoProv EXCEPT !.kind = "badjson"]}
    \cup {[NoProv EXCEPT !.kind = "json", !.code = c] : c \in {400, 404, 500}}
    \cup {[NoProv EXCEPT !.kind = "json", !.code = 200,
                         !.verification = "failed"]}
    \cup {[NoProv EXCEPT !.kind = "json", !.code = 200, !.dataOk = FALSE]}
    \cup {[NoProv EXCEPT !.kind = "json", !.code = 200,
                         !.fullName = a, !.full_name = b] :
              a \in {Absent, "", "A"}, b \in {Absent, "B"}}

RpdProviderResponses ==
    {[NoProv EXCEPT !.kind = "network"], [NoProv EXCEPT !.kind = "badjson"],
     [NoProv EXCEPT !.kind = "json", !.code = 400]}
    \cup {[NoProv EXCEPT !.kind = "json", !.code = 201,
                         !.status = BAV_CREATED, !.trace = t,
                         !.shortURL = "url", !.validUpto = "upto"] :
              t \in {ForeignTrace}}

PayProviderResponses ==
    {[NoProv EXCEPT !.kind = "network"], [NoProv EXCEPT !.kind = "badjson"],
     [NoProv EXCEPT !.kind = "json", !.code = 200]}
    \cup {[NoProv EXCEPT !.kind = "json", !.code = 400, !.trace = t] :
              t \in {0}}

\* which commit of the handler raises
Faults == {"none", "first", "second"}

\* --------------------------------------------------------------- responses
NoLast ==
    [op |-> "none", http |-> 0, status |-> "", trace_id |-> 0,
     called |-> FALSE, consent |-> <<>>, reasonLen |-> 0, flow |-> 0,
     rid |-> 0, pstat |-> FALSE, prov |-> NoProv, stored |-> FALSE,
     updated |-> FALSE, full_name |-> "", role |-> "", gate |-> ""]

\* the response of a request that the dependency `gate` turned away
AuthError(gate, token) ==
    [NoLast EXCEPT !.op = "access_gate", !.gate = gate, !.role = token,
                   !.http = IF token = "none" THEN 401 ELSE 403,
                   !.status = "auth_error"]

\* the step in which handler `op` sent its request to the provider
ProviderCall(op, token, flow, rid) ==
    [NoLast EXCEPT !.op = op, !.called = TRUE, !.role = token,
                   !.flow = flow, !.rid = rid]

NoReq ==
    [op |-> "none", flow |-> 0, consent |-> <<>>, reasonLen |-> 0,
     rid |-> 0, pstat |-> FALSE]

NoMetrics == [ok |-> FALSE, counts |-> <<>>, none |-> TRUE]

\* mutant: the request stays at the provider after its response was handled
Remove_m(s, i) == s

Remove(s, i) == [j \in 1..(Len(s) - 1) |-> IF j < i THEN s[j] ELSE s[j + 1]]

InFlight(op) == Cardinality({i \in 1..Len(inflight) : inflight[i].op = op})

Init ==
    /\ pan_verifications = <<>>
    /\ reverse_penny_drops = <<>>
    /\ payments = <<>>
    /\ inflight = <<>>
    /\ last = NoLast
    /\ metrics = NoMetrics
    /\ statusWrites = <<>>
    /\ nextTrace = 1
    /\ nextId = 1

\* ------------------------------------------------------------- verify_pan
PanRow(trace_id, status, full_name) ==
    [trace_id |-> trace_id, status |-> status, full_name |-> full_name]

\* mutant: tests that the keys are present, not that they carry a value
NameMissing_m(p) == p.fullName = Absent /\ p.full_name = Absent

\* `not data.get("fullName") and not data.get("full_name")`
NameMissing(p) == Falsy(p.fullName) /\ Falsy(p.full_name)

\* data.get("fullName", data.get("full_name", "Unknown"))
TransformedFullName(p) == Get(p.fullName, Get(p.full_name, "Unknown"))

\* mutant: a verification the provider reports as failed is answered 200
VerifyPanOutcome_m(p) ==
    IF p.kind = "network"
    THEN [row |-> "connection_error", name |-> "", http |-> 500,
          status |-> "connection_error", onFail |-> "connection_error",
          failHttp |-> 500]
    ELSE IF p.kind = "badjson"
    THEN [row |-> "error", name |-> "", http |-> 500, status |-> "error",
          onFail |-> "error", failHttp |-> 500]
    ELSE IF p.code = 200 /\ p.verification = "failed"
    THEN [row |-> "failed", name |-> "", http |-> 200, status |-> "failed",
          onFail |-> "failed", failHttp |-> 200]
    ELSE IF p.code = 200 /\ ~p.dataOk
    THEN [row |-> "", name |-> "", http |-> 500, status |-> "error",
          onFail |-> "error", failHttp |-> 500]
    ELSE IF p.code = 200 /\ NameMissing(p)
    THEN [row |-> "failed", name |-> "", http |-> 400, status |-> "failed",
          onFail |-> "error", failHttp |-> 500]
    ELSE IF p.code = 200
    THEN [row |-> "success", name |-> TransformedFullName(p), http |-> 200,
          status |-> "success", onFail |-> "error", failHttp |-> 500]
    ELSE IF p.code = 400
    THEN [row |-> "failed", name |-> "", http |-> 400, status |-> "failed",
          onFail |-> "failed", failHttp |-> 400]
    ELSE IF p.code = 404
    THEN [row |-> "not_found", name |-> "", http |-> 404,
          status |-> "not_found", onFail |-> "not_found", failHttp |-> 404]
    ELSE [row |-> "error", name |-> "", http |-> p.code, status |-> "error",
          onFail |-> "error", failHttp |-> p.code]

\* The part of verify_pan after the provider call: the row it tries to
\* store (status "" when it stores none), whether a failed commit is
\* swallowed, and the response it returns when the commit succeeds and
\* when it fails.
VerifyPanOutcome(p) ==
    IF p.kind = "network"
    THEN [row |-> "connection_error", name |-> "", http |-> 500,
          status |-> "connection_error", onFail |-> "connection_error",
          failHttp |-> 500]
    ELSE IF p.kind = "badjson"
    THEN [row |-> "error", name |-> "", http |-> 500, status |-> "error",
          onFail |-> "error", failHttp |-> 500]
    ELSE IF p.code = 200 /\ p.verification = "failed"
    THEN [row |-> "failed", name |-> "", http |-> 404, status |-> "failed",
          onFail |-> "failed", failHttp |-> 404]
    ELSE IF p.code = 200 /\ ~p.dataOk
    THEN [row |-> "", name |-> "", http |-> 500, status |-> "error",
          onFail |-> "error", failHttp |-> 500]
    ELSE IF p.code = 200 /\ NameMissing(p)
    THEN [row |-> "failed", name |-> "", http |-> 400, status |-> "failed",
          onFail |-> "error", failHttp |-> 500]
    ELSE IF p.code = 200
    THEN [row |-> "success", name |-> TransformedFullName(p), http |-> 200,
          status |-> "success", onFail |-> "error", failHttp |-> 500]
    ELSE IF p.code = 400
    THEN [row |-> "failed", name |-> "", http |-> 400, status |-> "failed",
          onFail |-> "failed", failHttp |-> 400]
    ELSE IF p.code = 404
    THEN [row |-> "not_found", name |-> "", http |-> 404,
          status |-> "not_found", onFail |-> "not_found", failHttp |-> 404]
    ELSE [row |-> "error", name |-> "", http |-> p.code, status |-> "error",
          onFail |-> "error", failHttp |-> p.code]

\* mutant: the reason is checked only after the request went to the provider
verify_pan_start_m ==
    \E token \in Tokens, consent \in ConsentStrings,
       reasonLen \in ReasonLengths :
      IF ~get_member_user(token)
      THEN /\ last' = AuthError("get_member_user", token)
           /\ metrics' = NoMetrics
           /\ UNCHANGED <<store, inflight, statusWrites, nextTrace, nextId>>
      ELSE IF ConsentRejected(consent)
      THEN /\ last' = [NoLast EXCEPT !.op = "verify_pan", !.http = 400,
                          !.status = "failed", !.trace_id = ErrorTrace,
                          !.consent = consent, !.reasonLen = reasonLen,
                          !.role = token]
           /\ metrics' = NoMetrics
           /\ UNCHANGED <<store, inflight, statusWrites, nextTrace, nextId>>
      ELSE /\ nextTrace <= MaxPan
           /\ Len(inflight) < MaxInFlight
           /\ inflight' = Append(inflight,
                  [NoReq EXCEPT !.op = "verify_pan", !.flow = nextTrace,
                                !.consent = consent, !.reasonLen = reasonLen])
           /\ nextTrace' = nextTrace + 1
           /\ last' = IF ReasonTooShort(reasonLen)
                      THEN [NoLast EXCEPT !.op = "verify_pan", !.http = 400,
                               !.status = "failed", !.trace_id = ErrorTrace,
                               !.consent = consent, !.reasonLen = reasonLen,
                               !.role = token]
                      ELSE ProviderCall("verify_pan_call", token, nextTrace, 0)
           /\ metrics' = NoMetrics
           /\ UNCHANGED <<store, statusWrites, nextId>>

\* mutant: the identifier does not depend on the call
NewTraceId_m(n) == 1

\* f"flow_{uuid.uuid4()}": the n-th identifier drawn differs from the ones
\* drawn before it
NewTraceId(n) == n

\* verify_pan up to its provider call, for at most maxPan identity checks
verify_pan_start_upto(maxPan) ==
    \E token \in Tokens, consent \in ConsentStrings,
       reasonLen \in ReasonLengths :
      IF ~get_member_user(token)
      THEN /\ last' = AuthError("get_member_user", token)
           /\ metrics' = NoMetrics
           /\ UNCHANGED <<store, inflight, statusWrites, nextTrace, nextId>>
      ELSE IF ConsentRejected(consent)
      THEN /\ last' = [NoLast EXCEPT !.op = "verify_pan", !.http = 400,
                          !.status = "failed", !.trace_id = ErrorTrace,
                          !.consent = consent, !.reasonLen = reasonLen,
                          !.role = token]
           /\ metrics' = NoMetrics
           /\ UNCHANGED <<store, inflight, statusWrites, nextTrace, nextId>>
      ELSE IF ReasonTooShort(reasonLen)
      THEN /\ last' = [NoLast EXCEPT !.op = "verify_pan", !.http = 400,
                          !.status = "failed", !.trace_id = ErrorTrace,
                          !.consent = consent, !.reasonLen = reasonLen,
                          !.role = token]
           /\ metrics' = NoMetrics
           /\ UNCHANGED <<store, inflight, statusWrites, nextTrace, nextId>>
      ELSE /\ nextTrace <= maxPan
           /\ Len(inflight) < MaxInFlight
           /\ inflight' = Append(inflight,
                  [NoReq EXCEPT !.op = "verify_pan",
                                !.flow = NewTraceId(nextTrace),
                                !.consent = consent, !.reasonLen = reasonLen])
           /\ nextTrace' = nextTrace + 1
           /\ last' = ProviderCall("verify_pan_call", token,
                                   NewTraceId(nextTrace), 0)
           /\ metrics' = NoMetrics
           /\ UNCHANGED <<store, statusWrites, nextId>>

\* verify_pan up to its provider call
verify_pan_start == verify_pan_start_upto(MaxPan)

\* mutant: a failed write never changes the response
verify_pan_finish_m ==
    \E i \in 1..Len(inflight), p \in PanProviderResponses,
       fault \in Faults \ {"second"} :
      LET req == inflight[i]
          out == VerifyPanOutcome(p)
          stored == out.row # "" /\ fault = "none"
      IN  /\ req.op = "verify_pan"
          /\ inflight' = Remove(inflight, i)
          /\ pan_verifications' =
               IF stored
               THEN Append(pan_verifications,
                           PanRow(req.flow, out.row, out.name))
               ELSE pan_verifications
          /\ last' = [NoLast EXCEPT
                 !.op = "verify_pan", !.called = TRUE,
                 !.http = out.http,
                 !.status = out.status,
                 !.trace_id = req.flow, !.flow = req.flow,
                 !.consent = req.consent, !.reasonLen = req.reasonLen,
                 !.prov = p, !.stored = stored,
                 !.full_name = IF stored /\ out.row = "success"
                               THEN out.name ELSE ""]
          /\ metrics' = NoMetrics
          /\ UNCHANGED <<reverse_penny_drops, payments, statusWrites,
                         nextTrace, nextId>>

verify_pan_finish ==
    \E i \in 1..Len(inflight), p \in PanProviderResponses,
       fault \in Faults \ {"second"} :
      LET req == inflight[i]
          out == VerifyPanOutcome(p)
          stored == out.row # "" /\ fault = "none"
      IN  /\ req.op = "verify_pan"
          /\ inflight' = Remove(inflight, i)
          /\ pan_verifications' =
               IF stored
               THEN Append(pan_verifications,
                           PanRow(req.flow, out.row, out.name))
               ELSE pan_verifications
          /\ last' = [NoLast EXCEPT
                 !.op = "verify_pan", !.called = TRUE,
                 !.http = IF stored \/ out.row = "" THEN out.http
                          ELSE out.failHttp,
                 !.status = IF stored \/ out.row = "" THEN out.status
                            ELSE out.onFail,
                 !.trace_id = req.flow, !.flow = req.flow,
                 !.consent = req.consent, !.reasonLen = req.reasonLen,
                 !.prov = p, !.stored = stored,
                 !.full_name = IF stored /\ out.row = "success"
                               THEN out.name ELSE ""]
          /\ metrics' = NoMetrics
          /\ UNCHANGED <<reverse_penny_drops, payments, statusWrites,
                         nextTrace, nextId>>

\* ------------------------------------------- create_reverse_penny_drop
RpdRow(status, trace_id, short_url, valid_upto) ==
    [status |-> status, trace_id |-> trace_id, short_url |-> short_url,
     valid_upto |-> valid_upto]

\* mutant: prefers the provider's trace identifier
RpdTraceId_m(flow_trace_id, provTrace) ==
    IF provTrace # 0 THEN provTrace ELSE flow_trace_id

\* `flow_trace_id if flow_trace_id else response_data.get("traceId", ...)`
RpdTraceId(flow_trace_id, provTrace) ==
    IF flow_trace_id # 0 THEN flow_trace_id ELSE provTrace

\* mutant: every row is stored under the same key, replacing the row that
\* is there
InsertRpd_m(table, id, row, fault) ==
    IF fault = "none"
    THEN [k \in DOMAIN table \cup {1} |-> IF k = 1 THEN row ELSE table[k]]
    ELSE table

\* db.add(row); db.commit() on the table keyed by id: a commit that raises
\* (a fault, or a primary key already present) leaves the table unchanged
InsertRpd(table, id, row, fault) ==
    IF fault = "none" /\ id \notin DOMAIN table
    THEN [k \in DOMAIN table \cup {id} |->
             IF k = id THEN row ELSE table[k]]
    ELSE table

\* mutant: a network failure is stored without the trace identifier
CreateRpdOutcome_m(p, flow_trace_id) ==
    IF p.kind = "network"
    THEN [row |-> "CONNECTION_ERROR", trace |-> 0, http |-> 500,
          status |-> "connection_error", short_url |-> "",
          valid_upto |-> ""]
    ELSE IF p.kind = "badjson"
    THEN [row |-> "", trace |-> 0, http |-> 500, status |-> "error",
          short_url |-> "", valid_upto |-> ""]
    ELSE IF p.code = 201
    THEN [row |-> Get(p.status, ""),
          trace |-> RpdTraceId(flow_trace_id, p.trace), http |-> 200,
          status |-> Get(p.status, ""), short_url |-> Get(p.shortURL, ""),
          valid_upto |-> Get(p.validUpto, "")]
    ELSE [row |-> "ERROR", trace |-> RpdTraceId(flow_trace_id, p.trace),
          http |-> p.code, status |-> "failed", short_url |-> "",
          valid_upto |-> ""]

\* The part of create_reverse_penny_drop after the provider call: the row
\* it tries to store (status "" when it stores none) and its response.
CreateRpdOutcome(p, flow_trace_id) ==
    IF p.kind = "network"
    THEN [row |-> "CONNECTION_ERROR", trace |-> flow_trace_id, http |-> 500,
          status |-> "connection_error", short_url |-> "",
          valid_upto |-> ""]
    ELSE IF p.kind = "badjson"
    THEN [row |-> "", trace |-> 0, http |-> 500, status |-> "error",
          short_url |-> "", valid_upto |-> ""]
    ELSE IF p.code = 201
    THEN [row |-> Get(p.status, ""),
          trace |-> RpdTraceId(flow_trace_id, p.trace), http |-> 200,
          status |-> Get(p.status, ""), short_url |-> Get(p.shortURL, ""),
          valid_upto |-> Get(p.validUpto, "")]
    ELSE [row |-> "ERROR", trace |-> RpdTraceId(flow_trace_id, p.trace),
          http |-> p.code, status |-> "failed", short_url |-> "",
          valid_upto |-> ""]

\* create_reverse_penny_drop up to its provider call, for at most maxRpd
\* reverse penny drops
create_reverse_penny_drop_start_upto(maxRpd) ==
    \E token \in Tokens,
       flowTraceId \in {AbsentTrace, 0, ForeignTrace}
                         \cup (1..(nextTrace - 1)) :
      IF FlowTraceIdMissing(flowTraceId)
      THEN /\ last' = [NoLast EXCEPT !.op = "create_rpd", !.http = 400,
                          !.status = "failed", !.trace_id = ErrorTrace,
                          !.flow = flowTraceId]
           /\ metrics' = NoMetrics
           /\ UNCHANGED <<store, inflight, statusWrites, nextTrace, nextId>>
      ELSE /\ nextId + InFlight("create_rpd") <= maxRpd
           /\ Len(inflight) < MaxInFlight
           /\ inflight' = Append(inflight,
                  [NoReq EXCEPT !.op = "create_rpd", !.flow = flowTraceId])
           /\ last' = ProviderCall("create_rpd_call", token, flowTraceId, 0)
           /\ metrics' = NoMetrics
           /\ UNCHANGED <<store, statusWrites, nextTrace, nextId>>

\* create_reverse_penny_drop up to its provider call
create_reverse_penny_drop_start ==
    create_reverse_penny_drop_start_upto(MaxRpd)

\* mutant: a failed write of the row turns the response into an error
create_reverse_penny_drop_finish_m ==
    \E i \in 1..Len(inflight), p \in RpdProviderResponses,
       fault \in Faults \ {"second"} :
      LET req == inflight[i]
          out == CreateRpdOutcome(p, req.flow)
          table == IF out.row = "" THEN reverse_penny_drops
                   ELSE InsertRpd(reverse_penny_drops, nextId,
                                  RpdRow(out.row, out.trace, out.short_url,
                                         out.valid_upto), fault)
          stored == table # reverse_penny_drops
      IN  /\ req.op = "create_rpd"
          /\ inflight' = Remove(inflight, i)
          /\ reverse_penny_drops' = table
          /\ statusWrites' =
               IF stored
               THEN [k \in DOMAIN table |->
                        IF k = nextId THEN 0 ELSE statusWrites[k]]
               ELSE statusWrites
          /\ nextId' = IF out.row = "" THEN nextId ELSE nextId + 1
          /\ last' = [NoLast EXCEPT
                 !.op = "create_rpd", !.called = TRUE,
                 !.http = IF stored \/ out.row = "" THEN out.http ELSE 500,
                 !.status = IF stored \/ out.row = "" THEN out.status
                            ELSE "error",
                 !.trace_id = IF p.kind = "json" /\ p.code = 201
                              THEN out.trace ELSE req.flow,
                 !.flow = req.flow,
                 !.rid = IF out.row = "" THEN 0 ELSE nextId,
                 !.prov = p, !.stored = stored]
          /\ metrics' = NoMetrics
          /\ UNCHANGED <<pan_verifications, payments, nextTrace>>

create_reverse_penny_drop_finish ==
    \E i \in 1..Len(inflight), p \in RpdProviderResponses,
       fault \in Faults \ {"second"} :
      LET req == inflight[i]
          out == CreateRpdOutcome(p, req.flow)
          table == IF out.row = "" THEN reverse_penny_drops
                   ELSE InsertRpd(reverse_penny_drops, nextId,
                                  RpdRow(out.row, out.trace, out.short_url,
                                         out.valid_upto), fault)
          stored == table # reverse_penny_drops
      IN  /\ req.op = "create_rpd"
          /\ inflight' = Remove(inflight, i)
          /\ reverse_penny_drops' = table
          /\ statusWrites' =
               IF stored
               THEN [k \in DOMAIN table |->
                        IF k = nextId THEN 0 ELSE statusWrites[k]]
               ELSE statusWrites
          /\ nextId' = IF out.row = "" THEN nextId ELSE nextId + 1
          /\ last' = [NoLast EXCEPT
                 !.op = "create_rpd", !.called = TRUE, !.http = out.http,
                 !.status = out.status,
                 !.trace_id = IF p.kind = "json" /\ p.code = 201
                              THEN out.trace ELSE req.flow,
                 !.flow = req.flow,
                 !.rid = IF out.row = "" THEN 0 ELSE nextId,
                 !.prov = p, !.stored = stored]
          /\ metrics' = NoMetrics
          /\ UNCHANGED <<pan_verifications, payments, nextTrace>>

\* ----------------------------------------------------------- mock_payment
PaymentRow(request_id, payment_status, trace_id) ==
    [request_id |-> request_id, payment_status |-> payment_status,
     trace_id |-> trace_id]

\* mutant: stores the status sent to the provider for a failed payment
PaidStatus_m(payment_status) == IF payment_status THEN "SUCCESS" ELSE "FAILURE"

\* `"SUCCESS" if request.payment_status else "EXPIRED"`
PaidStatus(payment_status) == IF payment_status THEN "SUCCESS" ELSE "EXPIRED"

\* mutant: an unknown request is answered as a failed request
NotFoundResponse_m ==
    [NoLast EXCEPT !.op = "mock_payment", !.http = 400, !.status = "failed",
                   !.trace_id = ErrorTrace]

\* response of mock_payment when the lookup by request id finds no row
NotFoundResponse ==
    [NoLast EXCEPT !.op = "mock_payment", !.http = 404,
                   !.status = "not_found", !.trace_id = ErrorTrace]

\* mutant: a payment the provider rejected also updates the status
MockPaymentOutcome_m(p, req) ==
    IF p.kind = "network"
    THEN [pay |-> TRUE, row |-> [request_id |-> req.rid,
                                 payment_status |-> FALSE, trace_id |-> 0],
          update |-> FALSE, http |-> 500, status |-> "connection_error"]
    ELSE IF p.kind = "badjson"
    THEN [pay |-> FALSE, row |-> [request_id |-> req.rid,
                                  payment_status |-> FALSE, trace_id |-> 0],
          update |-> FALSE, http |-> 500, status |-> "error"]
    ELSE IF p.code = 200
    THEN [pay |-> TRUE, row |-> [request_id |-> req.rid,
                                 payment_status |-> req.pstat,
                                 trace_id |-> req.flow],
          update |-> TRUE, http |-> 200, status |-> "success"]
    ELSE [pay |-> TRUE, row |-> [request_id |-> req.rid,
                                 payment_status |-> FALSE,
                                 trace_id |-> p.trace],
          update |-> TRUE, http |-> p.code, status |-> "failed"]

\* The part of mock_payment after the provider call: the payment row it
\* tries to store (none when `pay` is FALSE), whether it then updates the
\* status of the reverse penny drop, and its response.
MockPaymentOutcome(p, req) ==
    IF p.kind = "network"
    THEN [pay |-> TRUE, row |-> PaymentRow(req.rid, FALSE, 0),
          update |-> FALSE, http |-> 500, status |-> "connection_error"]
    ELSE IF p.kind = "badjson"
    THEN [pay |-> FALSE, row |-> PaymentRow(req.rid, FALSE, 0),
          update |-> FALSE, http |-> 500, status |-> "error"]
    ELSE IF p.code = 200
    THEN [pay |-> TRUE, row |-> PaymentRow(req.rid, req.pstat, req.flow),
          update |-> TRUE, http |-> 200, status |-> "success"]
    ELSE [pay |-> TRUE, row |-> PaymentRow(req.rid, FALSE, p.trace),
          update |-> FALSE, http |-> p.code, status |-> "failed"]

\* mutant: the request goes to the provider without looking up the row
mock_payment_start_m ==
    \E token \in Tokens,
       request_id \in DOMAIN reverse_penny_drops \cup {nextId},
       payment_status \in BOOLEAN :
      LET flow_trace_id ==
              IF request_id \in DOMAIN reverse_penny_drops
              THEN reverse_penny_drops[request_id].trace_id
              ELSE ForeignTrace
      IN
      IF flow_trace_id = 0
      THEN /\ last' = [NoLast EXCEPT !.op = "mock_payment", !.http = 400,
                          !.status = "invalid_request",
                          !.trace_id = ErrorTrace, !.rid = request_id,
                          !.pstat = payment_status]
           /\ metrics' = NoMetrics
           /\ UNCHANGED <<store, inflight, statusWrites, nextTrace, nextId>>
      ELSE /\ Len(payments) + InFlight("mock_payment") < MaxPay
           /\ Len(inflight) < MaxInFlight
           /\ inflight' = Append(inflight,
                  [NoReq EXCEPT !.op = "mock_payment",
                                !.flow = flow_trace_id,
                                !.rid = request_id, !.pstat = payment_status])
           /\ last' = ProviderCall("mock_payment_call", token,
                                   flow_trace_id,
                                   request_id)
           /\ metrics' = NoMetrics
           /\ UNCHANGED <<store, statusWrites, nextTrace, nextId>>

mock_payment_start ==
    \E token \in Tokens,
       request_id \in DOMAIN reverse_penny_drops \cup {nextId},
       payment_status \in BOOLEAN :
      IF request_id \notin DOMAIN reverse_penny_drops
      THEN /\ last' = [NotFoundResponse EXCEPT !.rid = request_id,
                                               !.pstat = payment_status]
           /\ metrics' = NoMetrics
           /\ UNCHANGED <<store, inflight, statusWrites, nextTrace, nextId>>
      ELSE IF reverse_penny_drops[request_id].trace_id = 0
      THEN /\ last' = [NoLast EXCEPT !.op = "mock_payment", !.http = 400,
                          !.status = "invalid_request",
                          !.trace_id = ErrorTrace, !.rid = request_id,
                          !.pstat = payment_status]
           /\ metrics' = NoMetrics
           /\ UNCHANGED <<store, inflight, statusWrites, nextTrace, nextId>>
      ELSE /\ Len(payments) + InFlight("mock_payment") < MaxPay
           /\ Len(inflight) < MaxInFlight
           /\ inflight' = Append(inflight,
                  [NoReq EXCEPT !.op = "mock_payment",
                                !.flow = reverse_penny_drops[request_id].trace_id,
                                !.rid = request_id, !.pstat = payment_status])
           /\ last' = ProviderCall("mock_payment_call", token,
                                   reverse_penny_drops[request_id].trace_id,
                                   request_id)
           /\ metrics' = NoMetrics
           /\ UNCHANGED <<store, statusWrites, nextTrace, nextId>>

\* mutant: the confirmation also clears the payment link of the challenge
mock_payment_finish_m ==
    \E i \in 1..Len(inflight), p \in PayProviderResponses, fault \in Faults :
      LET req == inflight[i]
          out == MockPaymentOutcome(p, req)
          stored == out.pay /\ fault # "first"
          updated == /\ stored
                     /\ out.update
                     /\ fault = "none"
                     /\ req.rid \in DOMAIN reverse_penny_drops
          newStatus == PaidStatus(req.pstat)
      IN  /\ req.op = "mock_payment"
          /\ fault = "second" => out.update
          /\ inflight' = Remove(inflight, i)
          /\ payments' = IF stored THEN Append(payments, out.row)
                         ELSE payments
          /\ reverse_penny_drops' =
               IF updated
               THEN [reverse_penny_drops EXCEPT ![req.rid].status = newStatus,
                                                ![req.rid].short_url = ""]
               ELSE reverse_penny_drops
          /\ statusWrites' =
               IF updated /\ reverse_penny_drops[req.rid].status # newStatus
               THEN [statusWrites EXCEPT ![req.rid] = @ + 1]
               ELSE statusWrites
          /\ last' = [NoLast EXCEPT
                 !.op = "mock_payment", !.called = TRUE, !.http = out.http,
                 !.status = out.status, !.trace_id = req.flow,
                 !.flow = req.flow, !.rid = req.rid, !.pstat = req.pstat,
                 !.prov = p, !.stored = stored, !.updated = updated]
          /\ metrics' = NoMetrics
          /\ UNCHANGED <<pan_verifications, nextTrace, nextId>>

mock_payment_finish ==
    \E i \in 1..Len(inflight), p \in PayProviderResponses, fault \in Faults :
      LET req == inflight[i]
          out == MockPaymentOutcome(p, req)
          stored == out.pay /\ fault # "first"
          updated == /\ stored
                     /\ out.update
                     /\ fault = "none"
                     /\ req.rid \in DOMAIN reverse_penny_drops
          newStatus == PaidStatus(req.pstat)
      IN  /\ req.op = "mock_payment"
          /\ fault = "second" => out.update
          /\ inflight' = Remove(inflight, i)
          /\ payments' = IF stored THEN Append(payments, out.row)
                         ELSE payments
          /\ reverse_penny_drops' =
               IF updated
               THEN [reverse_penny_drops EXCEPT ![req.rid].status = newStatus]
               ELSE reverse_penny_drops
          /\ statusWrites' =
               IF updated /\ reverse_penny_drops[req.rid].status # newStatus
               THEN [statusWrites EXCEPT ![req.rid] = @ + 1]
               ELSE statusWrites
          /\ last' = [NoLast EXCEPT
                 !.op = "mock_payment", !.called = TRUE, !.http = out.http,
                 !.status = out.status, !.trace_id = req.flow,
                 !.flow = req.flow, !.rid = req.rid, !.pstat = req.pstat,
                 !.prov = p, !.stored = stored, !.updated = updated]
          /\ metrics' = NoMetrics
          /\ UNCHANGED <<pan_verifications, nextTrace, nextId>>

\* ------------------------------------------------------ get_admin_metrics
Rows(table) == {table[k] : k \in DOMAIN table}

TraceIds(rows) == {r.trace_id : r \in rows} \ {0}

successful_pan_trace_ids(pan) ==
    TraceIds({r \in Rows(pan) : r.status = "success"})

failed_pan_trace_ids(pan) ==
    TraceIds({r \in Rows(pan) : r.status # "success"})

\* the filter of the successful_rpd_query
rpd_successful(r) == r.status = "SUCCESS" \/ r.status = BAV_CREATED

\* the filter of the failed_rpd_query
rpd_failed(r) == r.status # "SUCCESS"

successful_rpd_trace_ids(rpd) ==
    TraceIds({r \in Rows(rpd) : rpd_successful(r)})

failed_rpd_trace_ids(rpd) ==
    TraceIds({r \in Rows(rpd) : rpd_failed(r)})

all_rpd_trace_ids(rpd) == TraceIds(Rows(rpd))

\* mutant: the attempts that failed in both stages are not subtracted
AdminMetrics_m(pan, rpd) ==
    LET total_kyc_attempted == Len(pan)
        total_kyc_successful ==
            Cardinality(successful_pan_trace_ids(pan)
                        \cap successful_rpd_trace_ids(rpd))
        total_kyc_failed_due_to_pan == Cardinality(failed_pan_trace_ids(pan))
        total_kyc_failed_due_to_bank ==
            Cardinality(failed_rpd_trace_ids(rpd)
                        \cap successful_pan_trace_ids(pan))
        total_kyc_failed_due_to_both ==
            Cardinality(failed_pan_trace_ids(pan)
                        \cap failed_rpd_trace_ids(rpd))
        total_pan_without_rpd ==
            Cardinality(successful_pan_trace_ids(pan)
                        \ all_rpd_trace_ids(rpd))
    IN  [totalKycAttempted |-> total_kyc_attempted,
         totalKycSuccessful |-> total_kyc_successful,
         totalKycFailed |-> total_kyc_attempted - total_kyc_successful,
         totalKycFailedDueToPan |-> total_kyc_failed_due_to_pan,
         totalKycFailedDueToBankAccount |-> total_kyc_failed_due_to_bank,
         totalKycFailedDueToBoth |-> total_kyc_failed_due_to_both,
         totalPanWithoutRpd |-> total_pan_without_rpd]

\* mutant: an attempt counts as successful when either stage succeeded
AdminMetrics_m2(pan, rpd) ==
    LET total_kyc_attempted == Len(pan)
        total_kyc_successful ==
            Cardinality(successful_pan_trace_ids(pan)
                        \cup successful_rpd_trace_ids(rpd))
        total_kyc_failed_due_to_pan == Cardinality(failed_pan_trace_ids(pan))
        total_kyc_failed_due_to_bank ==
            Cardinality(failed_rpd_trace_ids(rpd)
                        \cap successful_pan_trace_ids(pan))
        total_kyc_failed_due_to_both ==
            Cardinality(failed_pan_trace_ids(pan)
                        \cap failed_rpd_trace_ids(rpd))
        total_pan_without_rpd ==
            Cardinality(successful_pan_trace_ids(pan)
                        \ all_rpd_trace_ids(rpd))
    IN  [totalKycAttempted |-> total_kyc_attempted,
         totalKycSuccessful |-> total_kyc_successful,
         totalKycFailed |-> total_kyc_attempted - total_kyc_successful,
         totalKycFailedDueToPan |->
             total_kyc_failed_due_to_pan - total_kyc_failed_due_to_both,
         totalKycFailedDueToBankAccount |-> total_kyc_failed_due_to_bank,
         totalKycFailedDueToBoth |-> total_kyc_failed_due_to_both,
         totalPanWithoutRpd |-> total_pan_without_rpd]

AdminMetrics(pan, rpd) ==
    LET total_kyc_attempted == Len(pan)
        total_kyc_successful ==
            Cardinality(successful_pan_trace_ids(pan)
                        \cap successful_rpd_trace_ids(rpd))
        total_kyc_failed_due_to_pan == Cardinality(failed_pan_trace_ids(pan))
        total_kyc_failed_due_to_bank ==
            Cardinality(failed_rpd_trace_ids(rpd)
                        \cap successful_pan_trace_ids(pan))
        total_kyc_failed_due_to_both ==
            Cardinality(failed_pan_trace_ids(pan)
                        \cap failed_rpd_trace_ids(rpd))
        total_pan_without_rpd ==
            Cardinality(successful_pan_trace_ids(pan)
                        \ all_rpd_trace_ids(rpd))
    IN  [totalKycAttempted |-> total_kyc_attempted,
         totalKycSuccessful |-> total_kyc_successful,
         totalKycFailed |-> total_kyc_attempted - total_kyc_successful,
         totalKycFailedDueToPan |->
             total_kyc_failed_due_to_pan - total_kyc_failed_due_to_both,
         totalKycFailedDueToBankAccount |-> total_kyc_failed_due_to_bank,
         totalKycFailedDueToBoth |-> total_kyc_failed_due_to_both,
         totalPanWithoutRpd |-> total_pan_without_rpd]

\* mutant: the count taken before the failing query is kept
ZeroMetrics_m ==
    [totalKycAttempted |-> Len(pan_verifications), totalKycSuccessful |-> 0,
     totalKycFailed |-> 0, totalKycFailedDueToPan |-> 0,
     totalKycFailedDueToBankAccount |-> 0, totalKycFailedDueToBoth |-> 0,
     totalPanWithoutRpd |-> 0]

ZeroMetrics ==
    [totalKycAttempted |-> 0, totalKycSuccessful |-> 0, totalKycFailed |-> 0,
     totalKycFailedDueToPan |-> 0, totalKycFailedDueToBankAccount |-> 0,
     totalKycFailedDueToBoth |-> 0, totalPanWithoutRpd |-> 0]

\* mutant: the query expires the challenges that are still unpaid
get_admin_metrics_m ==
    \E token \in Tokens :
      IF ~get_admin_user(token)
      THEN /\ last' = AuthError("get_admin_user", token)
           /\ metrics' = NoMetrics
           /\ UNCHANGED <<store, inflight, statusWrites, nextTrace, nextId>>
      ELSE /\ metrics' = [ok |-> TRUE,
                          counts |-> AdminMetrics(pan_verifications,
                                                  reverse_penny_drops),
                          none |-> FALSE]
           /\ reverse_penny_drops' =
                [k \in DOMAIN reverse_penny_drops |->
                    IF reverse_penny_drops[k].status = BAV_CREATED
                    THEN [reverse_penny_drops[k] EXCEPT !.status = "EXPIRED"]
                    ELSE reverse_penny_drops[k]]
           /\ last' = [NoLast EXCEPT !.op = "get_admin_metrics",
                                     !.role = token]
           /\ UNCHANGED <<pan_verifications, payments, inflight,
                          statusWrites, nextTrace, nextId>>

\* mutant: the identity rows are counted before the latest of them was
\* committed, the other queries run after it
get_admin_metrics_m2 ==
    \E token \in Tokens, raises \in BOOLEAN :
      IF ~get_admin_user(token)
      THEN /\ last' = AuthError("get_admin_user", token)
           /\ metrics' = NoMetrics
           /\ UNCHANGED <<store, inflight, statusWrites, nextTrace, nextId>>
      ELSE /\ metrics' =
                IF raises
                THEN [ok |-> FALSE, counts |-> ZeroMetrics, none |-> FALSE]
                ELSE [ok |-> TRUE,
                      counts |->
                          [AdminMetrics(pan_verifications,
                                        reverse_penny_drops)
                             EXCEPT !.totalKycAttempted =
                                      IF @ > 0 THEN @ - 1 ELSE @],
                      none |-> FALSE]
           /\ last' = [NoLast EXCEPT !.op = "get_admin_metrics",
                                     !.role = token]
           /\ UNCHANGED <<store, inflight, statusWrites, nextTrace, nextId>>

\* `raises`: some query of the computation raises and the handler's
\* `except Exception` returns the all-zero response
get_admin_metrics ==
    \E token \in Tokens, raises \in BOOLEAN :
      IF ~get_admin_user(token)
      THEN /\ last' = AuthError("get_admin_user", token)
           /\ metrics' = NoMetrics
           /\ UNCHANGED <<store, inflight, statusWrites, nextTrace, nextId>>
      ELSE /\ metrics' =
                IF raises
                THEN [ok |-> FALSE, counts |-> ZeroMetrics, none |-> FALSE]
                ELSE [ok |-> TRUE,
                      counts |-> AdminMetrics(pan_verifications,
                                              reverse_penny_drops),
                      none |-> FALSE]
           /\ last' = [NoLast EXCEPT !.op = "get_admin_metrics",
                                     !.role = token]
           /\ UNCHANGED <<store, inflight, statusWrites, nextTrace, nextId>>

Next ==
    \/ verify_pan_start
    \/ verify_pan_finish
    \/ create_reverse_penny_drop_start
    \/ create_reverse_penny_drop_finish
    \/ mock_payment_start
    \/ mock_payment_finish
    \/ get_admin_metrics

Spec == Init /\ [][Next]_vars

\* ------------------------------------------------------------------ claims
\* the accept value 'Y', compared without regard to case
ConsentAccepts(consent) == Len(consent) = 1 /\ consent[1] \in {"Y", "y"}

PanRowsOf(trace_id) ==
    {r \in Rows(pan_verifications) : r.trace_id = trace_id}

\* C1: an identity check whose consent is not the accept value 'Y'
\* (case-insensitively) ends with status 'failed' and is never sent to the
\* provider: its response comes from before the provider call, and no such
\* request is suspended at the provider.
C1_ConsentRejected ==
    /\ (last.op = "verify_pan" /\ ~ConsentAccepts(last.consent))
         => (last.status = "failed" /\ ~last.called)
    /\ \A i \in 1..Len(inflight) :
         inflight[i].op = "verify_pan" => ConsentAccepts(inflight[i].consent)

C1_Witness ==
    /\ last.op = "verify_pan"
    /\ last.consent = <<"N">>
    /\ last.status = "failed"
    /\ ~last.called

\* C2: an identity check whose reason is shorter than 20 characters ends
\* with status 'failed' and is never sent to the provider.
C2_ShortReasonRejected ==
    /\ (last.op = "verify_pan" /\ last.reasonLen < MinReasonLen)
         => (last.status = "failed" /\ ~last.called)
    /\ \A i \in 1..Len(inflight) :
         inflight[i].op = "verify_pan"
           => inflight[i].reasonLen >= MinReasonLen

C2_Witness ==
    /\ last.op = "verify_pan"
    /\ ConsentAccepts(last.consent)
    /\ last.reasonLen = MinReasonLen - 1
    /\ last.status = "failed"
    /\ ~last.called

\* the provider answered 200 with a JSON body in which neither spelling of
\* the full name carries a value
SuccessWithoutName(p) ==
    /\ p.kind = "json"
    /\ p.code = 200
    /\ p.fullName \in {Absent, ""}
    /\ p.full_name \in {Absent, ""}

C4_UnknownRequestNotFound ==
    [][(last'.op = "mock_payment"
          /\ last'.rid \notin DOMAIN reverse_penny_drops)
         => /\ last'.http = 404
            /\ last'.status = "not_found"
            /\ ~last'.called
            /\ UNCHANGED <<store, inflight>>]_vars

C4_Witness ==
    /\ last.op = "mock_payment"
    /\ last.rid \notin DOMAIN reverse_penny_drops
    /\ last.status = "not_found"
    /\ DOMAIN reverse_penny_drops # {}

\* C5: the trace identifier supplied to a bank-challenge creation that the
\* provider accepts is the one returned in the response and the one stored
\* on the row the creation writes.
C5_TraceRoundTrip ==
    (last.op = "create_rpd" /\ last.called /\ last.prov.kind = "json"
       /\ last.prov.code = 201)
      => /\ last.trace_id = last.flow
         /\ last.stored
              => reverse_penny_drops[last.rid].trace_id = last.flow

C5_Witness ==
    /\ last.op = "create_rpd"
    /\ last.prov.code = 201
    /\ last.stored
    /\ \E r \in PanRowsOf(last.flow) : r.status = "success"
    /\ reverse_penny_drops[last.rid].trace_id = last.flow

SumOfBuckets(m) ==
    m.totalKycSuccessful + m.totalKycFailedDueToPan
      + m.totalKycFailedDueToBankAccount + m.totalKycFailedDueToBoth
      + m.totalPanWithoutRpd

\* every identity row has a trace identifier and a bank-stage row with it
EveryAttemptMatched ==
    \A r \in Rows(pan_verifications) :
      /\ r.trace_id # 0
      /\ r.trace_id \in all_rpd_trace_ids(reverse_penny_drops)

\* C6 as claimed: in every reachable record set the five buckets add up to
\* at most the number of attempts, and to exactly that number when every
\* identity row has a trace identifier and a matching bank-stage row.
C6_Original ==
    LET m == AdminMetrics(pan_verifications, reverse_penny_drops)
    IN  /\ SumOfBuckets(m) <= m.totalKycAttempted
        /\ EveryAttemptMatched => SumOfBuckets(m) = m.totalKycAttempted

\* the bank stage of an attempt succeeded: its challenge was created or
\* settled (the statuses get_admin_metrics selects as successful)
BankSucceeded(row) == row.status \in {"SUCCESS", BAV_CREATED}

RpdRowsOf(trace_id) ==
    {k \in DOMAIN reverse_penny_drops :
        reverse_penny_drops[k].trace_id = trace_id}

\* the record set is that of attempts whose identity check succeeded and
\* which each have one bank-stage row, and of nothing else
OnlySucceededIdentityWithBank ==
    /\ \A r \in Rows(pan_verifications) : r.status = "success"
    /\ \A i \in DOMAIN pan_verifications :
         Cardinality(RpdRowsOf(pan_verifications[i].trace_id)) = 1
    /\ \A k \in DOMAIN reverse_penny_drops :
         PanRowsOf(reverse_penny_drops[k].trace_id) # {}

\* C7 as claimed: for n attempts with identity and bank stage succeeded and
\* m attempts with identity succeeded and bank stage failed, and no other
\* attempt, the metrics are kycSuccessful = n, failedDueToBank = m and
\* failedDueToIdentity = 0.
C7_Original ==
    LET m == AdminMetrics(pan_verifications, reverse_penny_drops)
        succeeded == {k \in DOMAIN reverse_penny_drops :
                         BankSucceeded(reverse_penny_drops[k])}
        failed == DOMAIN reverse_penny_drops \ succeeded
    IN  OnlySucceededIdentityWithBank
          => /\ m.totalKycSuccessful = Cardinality(succeeded)
             /\ m.totalKycFailedDueToBankAccount = Cardinality(failed)
             /\ m.totalKycFailedDueToPan = 0

StatusChanged(k) ==
    reverse_penny_drops'[k].status # reverse_penny_drops[k].status

AcceptedPayments(k) ==
    {i \in DOMAIN payments :
        /\ payments[i].request_id = k
        /\ payments[i].trace_id = reverse_penny_drops[k].trace_id}

PanIndexesOf(trace_id) ==
    {i \in DOMAIN pan_verifications :
        pan_verifications[i].trace_id = trace_id}

\* C11 as claimed: every identity check that was sent to the provider and
\* returned a terminal outcome has left exactly one identity row that
\* carries the trace identifier returned in the response, and the status
\* of that row is the status of the response.
C11_Original ==
    (last.op = "verify_pan" /\ last.called)
      => /\ Cardinality(PanIndexesOf(last.trace_id)) = 1
         /\ \A i \in PanIndexesOf(last.trace_id) :
              pan_verifications[i].status = last.status

\* the response is that of a request with a validation error: an identity
\* check with a consent other than 'Y' or a reason shorter than 20
\* characters, or a bank-challenge creation without a trace identifier
ValidationRejected(resp) ==
    \/ /\ resp.op = "verify_pan"
       /\ ~ConsentAccepts(resp.consent) \/ resp.reasonLen < MinReasonLen
    \/ /\ resp.op = "create_rpd"
       /\ resp.flow \in {AbsentTrace, 0}

\* C12: the step that rejects a request for a validation error sends
\* nothing to the provider and leaves the three tables unchanged.
C12_RejectionChangesNothing ==
    [][ValidationRejected(last')
         => /\ ~last'.called
            /\ UNCHANGED <<store, inflight>>]_vars

C12_Witness ==
    /\ last.op = "create_rpd"
    /\ last.flow = AbsentTrace
    /\ ~last.called
    /\ pan_verifications # <<>>
    /\ reverse_penny_drops # <<>>
    /\ payments # <<>>

\* C13 as claimed: every payment row carries the trace identifier of the
\* reverse penny drop row its request_id names.
C13_Original ==
    \A i \in DOMAIN payments :
      payments[i].request_id \in DOMAIN reverse_penny_drops
        => payments[i].trace_id =
             reverse_penny_drops[payments[i].request_id].trace_id

\* C14 as claimed: every reverse penny drop row carries a trace identifier
\* under which an identity row with status success is stored.
C14_Original ==
    \A k \in DOMAIN reverse_penny_drops :
      \E r \in PanRowsOf(reverse_penny_drops[k].trace_id) :
        r.status = "success"

\* C15: a bank-challenge creation whose flowTraceId is absent or empty
\* returns status 'failed' with HTTP 400 and is never sent to the provider.
C15_MissingTraceRejected ==
    /\ (last.op = "create_rpd" /\ last.flow \in {AbsentTrace, 0})
         => (last.status = "failed" /\ last.http = 400 /\ ~last.called)
    /\ last.op = "create_rpd_call" => last.flow \notin {AbsentTrace, 0}
    /\ \A i \in 1..Len(inflight) :
         inflight[i].op = "create_rpd"
           => inflight[i].flow \notin {AbsentTrace, 0}

C15_Witness ==
    /\ last.op = "create_rpd"
    /\ last.flow = 0
    /\ last.status = "failed"
    /\ last.http = 400
    /\ ~last.called

\* C16 as claimed: when a bank-challenge creation that carries a trace
\* identifier was sent to the provider and did not get the provider's 201,
\* a reverse penny drop row with an error status and that trace identifier
\* is stored.
C16_Original ==
    (last.op = "create_rpd" /\ last.called
       /\ ~(last.prov.kind = "json" /\ last.prov.code = 201))
      => \E k \in DOMAIN reverse_penny_drops :
           /\ reverse_penny_drops[k].trace_id = last.flow
           /\ reverse_penny_drops[k].status \in {"ERROR", "CONNECTION_ERROR"}

\* the sets of trace identifiers that the five attribution counts of
\* get_admin_metrics are the sizes of
AttributionBuckets ==
    LET sp == successful_pan_trace_ids(pan_verifications)
        fp == failed_pan_trace_ids(pan_verifications)
        sr == successful_rpd_trace_ids(reverse_penny_drops)
        fr == failed_rpd_trace_ids(reverse_penny_drops)
    IN  <<sp \cap sr, fp \ fr, fr \cap sp, fp \cap fr,
          sp \ all_rpd_trace_ids(reverse_penny_drops)>>

\* C17 as claimed: no trace identifier is in more than one of the sets
\* counted as kycSuccessful, failedDueToIdentity, failedDueToBank,
\* failedDueToBoth and identitySucceededNoBankAttempt.
C17_Original ==
    \A i, j \in 1..5 :
      i # j => AttributionBuckets[i] \cap AttributionBuckets[j] = {}

\* C18 as claimed: every reverse penny drop row is selected by exactly one
\* of the two status filters of the metrics, the successful one or the
\* failed one.
C18_Original ==
    \A r \in Rows(reverse_penny_drops) : rpd_successful(r) # rpd_failed(r)

\* C19: the metrics are computed only for a token with the administrator
\* role, the identity check runs only for a token that passed the member
\* gate, and the step that turns a request away at a gate sends nothing to
\* the provider, writes no row and computes no metrics.
C19_RoleGating ==
    [][/\ metrics'.none = FALSE => last'.role = "admin"
       /\ (\/ last'.op = "verify_pan_call"
           \/ last'.op = "verify_pan" /\ ~last'.called)
            => get_member_user(last'.role)
       /\ last'.op = "access_gate"
            => /\ ~last'.called
               /\ metrics'.none
               /\ UNCHANGED <<store, inflight>>]_vars

C19_Witness ==
    /\ last.op = "access_gate"
    /\ last.gate = "get_admin_user"
    /\ last.role = "member"
    /\ metrics.none
    /\ pan_verifications # <<>>

\* C20 as claimed: a stage handler sends a request to the provider only
\* for a request whose bearer token the access gate validated.
C20_Original ==
    last.op \in {"verify_pan_call", "create_rpd_call", "mock_payment_call"}
      => last.role # "none"

\* the provider accepted the request of the stage whose response is resp
ProviderSucceeded(resp) ==
    /\ resp.called
    /\ resp.prov.kind = "json"
    /\ \/ /\ resp.op = "verify_pan"
          /\ resp.prov.code = 200
          /\ resp.prov.verification # "failed"
          /\ resp.prov.dataOk
          /\ ~SuccessWithoutName(resp.prov)
       \/ resp.op = "create_rpd" /\ resp.prov.code = 201
       \/ resp.op = "mock_payment" /\ resp.prov.code = 200

\* a write of the stage whose response is resp raised
WriteFailed(resp) ==
    \/ ~resp.stored
    \/ resp.op = "mock_payment" /\ ~resp.updated

ResponseIfStored(resp) ==
    IF resp.op = "verify_pan"
    THEN <<VerifyPanOutcome(resp.prov).http, VerifyPanOutcome(resp.prov).status>>
    ELSE IF resp.op = "create_rpd"
    THEN <<CreateRpdOutcome(resp.prov, resp.flow).http,
           CreateRpdOutcome(resp.prov, resp.flow).status>>
    ELSE <<MockPaymentOutcome(resp.prov, resp).http,
           MockPaymentOutcome(resp.prov, resp).status>>

StageResponse(resp) ==
    resp.called /\ resp.op \in {"verify_pan", "create_rpd", "mock_payment"}

\* the identity check got a 200 whose data object can be read: the branch
\* that writes the success row or, when the name is missing, a failed row
InIdentity200Branch(resp) ==
    /\ resp.op = "verify_pan"
    /\ resp.prov.kind = "json"
    /\ resp.prov.code = 200
    /\ resp.prov.verification # "failed"
    /\ resp.prov.dataOk

PaymentsOf(k) == {i \in DOMAIN payments : payments[i].request_id = k}

LatestPaymentOf(k) ==
    CHOOSE i \in PaymentsOf(k) : \A j \in PaymentsOf(k) : j <= i

\* C23 as claimed: a reverse penny drop row that has payment rows has
\* status SUCCESS exactly when the payment row created last for it has
\* payment_status true.
C23_Original ==
    \A k \in DOMAIN reverse_penny_drops :
      PaymentsOf(k) # {}
        => (reverse_penny_drops[k].status = "SUCCESS"
              <=> payments[LatestPaymentOf(k)].payment_status)

\* C24 as claimed: the status of every reverse penny drop row is one of
\* CREATED, SUCCESS, EXPIRED, ERROR and CONNECTION_ERROR, and the row that
\* a creation accepted by the provider has just stored has status CREATED.
C24_Original ==
    /\ \A k \in DOMAIN reverse_penny_drops :
         reverse_penny_drops[k].status
           \in {"CREATED", "SUCCESS", "EXPIRED", "ERROR", "CONNECTION_ERROR"}
    /\ (last.op = "create_rpd" /\ ProviderSucceeded(last) /\ last.stored)
         => reverse_penny_drops[last.rid].status = "CREATED"

\* C25: every identity row and every reverse penny drop row carries a
\* trace identifier that is neither absent nor empty.
C25_TraceNonEmpty ==
    /\ \A r \in Rows(pan_verifications) : r.trace_id \notin {0, AbsentTrace}
    /\ \A r \in Rows(reverse_penny_drops) : r.trace_id \notin {0, AbsentTrace}

C25_Witness ==
    /\ \E r \in Rows(pan_verifications) :
         r.status = "error" /\ r.trace_id # 0
    /\ \E r \in Rows(reverse_penny_drops) :
         r.status = "CONNECTION_ERROR" /\ r.trace_id # 0

\* ------------------------------------------- the metrics over record sets
\* A second specification for the claims about the computation of
\* get_admin_metrics alone: it starts from any record set of up to
\* MaxMetricsPan identity rows and MaxMetricsRpd reverse penny drop rows
\* and applies get_admin_metrics.
MetricsPanStatuses == {"success", "failed"}
MetricsRpdStatuses == {BAV_CREATED, "SUCCESS", "ERROR"}

\* identity rows carry the generated trace identifiers, one row each
MetricsPanTables ==
    UNION {[1..n -> {PanRow(t, st, "") :
                        t \in 1..MaxMetricsPan, st \in MetricsPanStatuses}] :
              n \in 0..MaxMetricsPan}

MetricsRpdTables ==
    UNION {[1..n -> {RpdRow(st, t, "", "") :
                        st \in MetricsRpdStatuses,
                        t \in (1..MaxMetricsPan) \cup {ForeignTrace}}] :
              n \in 0..MaxMetricsRpd}

InitMetrics ==
    /\ pan_verifications \in
         {pan \in MetricsPanTables :
             \A i \in DOMAIN pan : pan[i].trace_id = i}
    /\ reverse_penny_drops \in MetricsRpdTables
    /\ payments = <<>>
    /\ inflight = <<>>
    /\ last = NoLast
    /\ metrics = NoMetrics
    /\ statusWrites = [k \in DOMAIN reverse_penny_drops |-> 0]
    /\ nextTrace = MaxMetricsPan + 1
    /\ nextId = Len(reverse_penny_drops) + 1

NextMetrics == get_admin_metrics

SpecMetrics == InitMetrics /\ [][NextMetrics]_vars

CallOps == {"verify_pan_call", "create_rpd_call", "mock_payment_call"}

\* C27: a stage sends one request to the provider when it starts and none
\* afterwards: the step that returns the stage's response takes the request
\* off the provider and sends no other, and when that request failed on the
\* network the response is connection_error with HTTP 500.
C27_NoRetry ==
    [][/\ last'.op \in CallOps => Len(inflight') = Len(inflight) + 1
       /\ StageResponse(last') => Len(inflight') = Len(inflight) - 1
       /\ (StageResponse(last') /\ last'.prov.kind = "network")
            => (last'.status = "connection_error" /\ last'.http = 500)
       /\ Len(inflight') # Len(inflight)
            => (last'.op \in CallOps \/ StageResponse(last'))]_vars

C27_Witness ==
    /\ last.op = "create_rpd"
    /\ last.called
    /\ last.prov.kind = "network"
    /\ last.status = "connection_error"
    /\ inflight = <<>>

C29_RecordsImmutable ==
    [][/\ Len(pan_verifications') >= Len(pan_verifications)
       /\ \A i \in DOMAIN pan_verifications :
            pan_verifications'[i] = pan_verifications[i]
       /\ Len(payments') >= Len(payments)
       /\ \A i \in DOMAIN payments : payments'[i] = payments[i]
       /\ \A k \in DOMAIN reverse_penny_drops :
            /\ k \in DOMAIN reverse_penny_drops'
            /\ [reverse_penny_drops'[k] EXCEPT
                  !.status = reverse_penny_drops[k].status]
                 = reverse_penny_drops[k]]_vars

C29_Witness ==
    /\ last.op = "mock_payment"
    /\ last.updated
    /\ Len(payments) = 2
    /\ pan_verifications # <<>>
    /\ reverse_penny_drops[last.rid].status = "EXPIRED"
    /\ reverse_penny_drops[last.rid].short_url = "url"
    /\ reverse_penny_drops[last.rid].trace_id = last.flow

\* C30 as claimed: when the provider has accepted a payment confirmation,
\* the payment row with the requested payment_status is stored and the
\* status of the reverse penny drop row is SUCCESS for a true and EXPIRED
\* for a false payment_status.
C30_Original ==
    (last.op = "mock_payment" /\ ProviderSucceeded(last))
      => /\ last.stored
         /\ payments # <<>>
         /\ payments[Len(payments)] =
              PaymentRow(last.rid, last.pstat, last.flow)
         /\ reverse_penny_drops[last.rid].status =
              IF last.pstat THEN "SUCCESS" ELSE "EXPIRED"

\* the provider's success response carries a non-empty full name under at
\* least one of the two spellings
HasFullName(p) == ~Falsy(p.fullName) \/ ~Falsy(p.full_name)

\* the first spelling, in the order fullName, full_name, that carries a value
FirstFullName(p) == IF ~Falsy(p.fullName) THEN p.fullName ELSE p.full_name

\* C31 as claimed: when the provider's success response carries a non-empty
\* full name under either spelling, the response and the identity row of
\* the attempt carry the first spelling that has a value, and no identity
\* row with status 'success' has an empty or absent full name.
C31_Original ==
    /\ (last.op = "verify_pan" /\ last.called /\ last.status = "success"
          /\ HasFullName(last.prov))
         => /\ last.full_name = FirstFullName(last.prov)
            /\ \A r \in PanRowsOf(last.trace_id) :
                 r.full_name = FirstFullName(last.prov)
    /\ \A r \in Rows(pan_verifications) :
         r.status = "success" => ~Falsy(r.full_name)

\* ------------------------------------------- two attempts side by side
\* the number of verification attempts whose steps are interleaved
MaxAttempts == 2

\* the provider's answers to the interleaved attempts: per stage its success
\* response and one failure
AttemptResponses ==
    {p \in PanProviderResponses :
        \/ p.kind = "json" /\ p.code = 400
        \/ p.kind = "json" /\ p.code = 200 /\ p.fullName = "A"
             /\ p.full_name = Absent /\ p.verification = Absent /\ p.dataOk}
    \cup {p \in RpdProviderResponses : p.kind = "json"}
    \cup {p \in PayProviderResponses :
             p.kind = "network" \/ (p.kind = "json" /\ p.code = 200)}

\* The requests of the interleaved attempts: each comes from an admin, passes
\* the precondition checks of its stage and, in the bank stages, names the
\* trace identifier of one of the attempts; the provider answers with one
\* of AttemptResponses and every write succeeds.
AttemptRequest ==
    /\ (last'.called /\ last'.op \notin CallOps)
         => /\ last'.prov \in AttemptResponses
            /\ last'.stored
            /\ (last'.op = "mock_payment" /\ last'.prov.kind = "json")
                 => last'.updated
    /\ last'.role \in {"", "admin"}
    /\ last'.op \in {"verify_pan", "create_rpd", "mock_payment"}
         => last'.called
    /\ last'.op \in CallOps => last'.flow \in 1..MaxAttempts
    /\ \A i \in DOMAIN inflight' :
         inflight'[i].op = "verify_pan"
           => /\ inflight'[i].consent = <<"Y">>
              /\ inflight'[i].reasonLen = MinReasonLen

NextConcurrent ==
    \/ verify_pan_start_upto(MaxAttempts) /\ AttemptRequest
    \/ verify_pan_finish /\ AttemptRequest
    \/ create_reverse_penny_drop_start_upto(MaxAttempts) /\ AttemptRequest
    \/ create_reverse_penny_drop_finish /\ AttemptRequest
    \/ mock_payment_start /\ AttemptRequest
    \/ mock_payment_finish /\ AttemptRequest

SpecConcurrent == Init /\ [][NextConcurrent]_vars

\* C32: no two identity rows share a trace identifier, so the set of trace
\* identifiers of successful identity checks and the set of those of failed
\* ones, as the metrics build them, have no member in common.
C32_TraceIdsUnique ==
    /\ \A i, j \in DOMAIN pan_verifications :
         pan_verifications[i].trace_id = pan_verifications[j].trace_id
           => i = j
    /\ successful_pan_trace_ids(pan_verifications)
         \cap failed_pan_trace_ids(pan_verifications) = {}

C32_Witness ==
    /\ Len(pan_verifications) = 2
    /\ \E i, j \in DOMAIN pan_verifications :
         /\ pan_verifications[i].status = "success"
         /\ pan_verifications[j].status = "failed"
    /\ successful_pan_trace_ids(pan_verifications) # {}
    /\ failed_pan_trace_ids(pan_verifications) # {}

\* the reverse penny drops created under trace identifier t
RpdIdsOf(t) ==
    {k \in DOMAIN reverse_penny_drops : reverse_penny_drops[k].trace_id = t}

\* the stage records of the attempt with trace identifier t: its identity
\* rows, its reverse penny drops and the payments that name them
AttemptRecords(t) ==
    [pan |-> SelectSeq(pan_verifications, LAMBDA r : r.trace_id = t),
     rpd |-> [k \in RpdIdsOf(t) |-> reverse_penny_drops[k]],
     pay |-> SelectSeq(payments, LAMBDA r : r.request_id \in RpdIdsOf(t))]

\* C33: a step of one attempt leaves the stage records of every other
\* attempt as they are, so the records an attempt ends with do not depend on
\* how its steps are interleaved with those of another attempt.
C33_NoInterference ==
    [][\A t \in 1..MaxAttempts :
         t # last'.flow => AttemptRecords(t)' = AttemptRecords(t)]_vars

\* attempt 1 has its payment confirmed while the confirmation of attempt 2
\* is suspended at the provider, both attempts having gone through the
\* identity and bank-challenge stages
C33_Witness ==
    /\ last.op = "mock_payment"
    /\ last.flow = 1
    /\ last.updated
    /\ \E i \in DOMAIN inflight :
         inflight[i].op = "mock_payment" /\ inflight[i].flow = 2
    /\ \A t \in 1..MaxAttempts :
         /\ Len(AttemptRecords(t).pan) = 1
         /\ RpdIdsOf(t) # {}
    /\ Len(AttemptRecords(1).pay) = 1

C35_PaymentReferencesRpd ==
    \A i \in DOMAIN payments :
      payments[i].request_id \in DOMAIN reverse_penny_drops

C35_Witness ==
    /\ last.op = "mock_payment"
    /\ last.stored
    /\ \E i, j \in DOMAIN payments :
         /\ payments[i].payment_status
         /\ ~payments[j].payment_status
         /\ payments[i].request_id \in DOMAIN reverse_penny_drops
         /\ payments[j].request_id \in DOMAIN reverse_penny_drops

\* the provider call of a payment confirmation did not succeed: the network
\* call failed, or the response is not the provider's 200
CallNotSucceeded(p) == p.kind # "json" \/ p.code # 200

\* C36 as claimed: a payment confirmation whose provider call does not
\* succeed leaves the status of every reverse penny drop row unchanged and
\* adds one payment row, for its request id, with payment_status false.
C36_Original ==
    [][(last'.op = "mock_payment" /\ last'.called
          /\ CallNotSucceeded(last'.prov))
         => /\ \A k \in DOMAIN reverse_penny_drops :
                 reverse_penny_drops'[k].status
                   = reverse_penny_drops[k].status
            /\ Len(payments') = Len(payments) + 1
            /\ payments'[Len(payments')].request_id = last'.rid
            /\ ~payments'[Len(payments')].payment_status]_vars

\* C37: every metrics response reports totalKycFailed = totalKycAttempted
\* minus totalKycSuccessful, which is not negative: totalKycSuccessful never
\* exceeds the number of identity rows.
C37_FailedIsDifference ==
    metrics.none = FALSE
      => /\ metrics.counts.totalKycFailed
              = metrics.counts.totalKycAttempted
                  - metrics.counts.totalKycSuccessful
         /\ metrics.counts.totalKycFailed >= 0
         /\ metrics.counts.totalKycSuccessful <= Len(pan_verifications)

C37_Witness ==
    /\ metrics.ok
    /\ metrics.counts.totalKycAttempted = 1
    /\ metrics.counts.totalKycSuccessful = 1
    /\ metrics.counts.totalKycFailed = 0
    /\ Len(pan_verifications) = 1

\* C38: when a step of the metrics computation fails, the caller gets the
\* metrics response with every count 0, not an error response, and no table
\* changes.
C38_FailureReturnsZeros ==
    [][(metrics'.none = FALSE /\ ~metrics'.ok)
         => /\ \A f \in DOMAIN metrics'.counts : metrics'.counts[f] = 0
            /\ DOMAIN metrics'.counts = DOMAIN AdminMetrics(<<>>, <<>>)
            /\ last'.op = "get_admin_metrics"
            /\ last'.status = ""
            /\ UNCHANGED store]_vars

C38_Witness ==
    /\ metrics.none = FALSE
    /\ ~metrics.ok
    /\ last.op = "get_admin_metrics"
    /\ pan_verifications # <<>>
    /\ reverse_penny_drops # <<>>
====
